---- MODULE Spec2Model ----
(***************************************************************************)
(* A model of the text pipeline of the risk-markets assistant:             *)
(*   app/preprocess.py    basic_clean, _normalize_unicode                   *)
(*   app/utils_text.py    chunk_text                                        *)
(*   app/build_corpus.py  _split_into_paragraphs, _build_rows               *)
(*   app/search.py        main (filter, score, rank)                        *)
(*                                                                         *)
(* A Python str is a sequence of code points.  A code point is written as  *)
(* a TLA+ string: an ASCII character stands for itself ("a", " ", "\n"),   *)
(* any other code point is written "U+XXXX".                               *)
(***************************************************************************)
EXTENDS Integers, Sequences, FiniteSets, TLC

VARIABLES
  pc,                                   \* position of the running program
  s, max_tokens, overlap, chunks,       \* chunk_text: arguments and result
  raw, normalized, cleaned, recleaned,  \* preprocess: input and results
  text, paragraphs,                     \* build_corpus: file text, its paragraphs
  mf, files, rows, doc,                 \* build_corpus: manifest, file store, rows, loop index
  df, X, args, qv, hits                 \* search: artifact, arguments, query vector, printed hits

chunkVars  == <<s, max_tokens, overlap, chunks>>
cleanVars  == <<raw, normalized, cleaned, recleaned>>
splitVars  == <<text, paragraphs>>
buildVars  == <<mf, files, rows, doc>>
searchVars == <<df, X, args, qv, hits>>
vars == <<pc, chunkVars, cleanVars, splitVars, buildVars, searchVars>>

\* The value of a variable the running program does not use.
None == "None"

\* Initial values of the variables of the parts a program does not run.
ChunkUnused  == s = None /\ max_tokens = None /\ overlap = None /\ chunks = None
CleanUnused  == raw = None /\ normalized = None /\ cleaned = None /\ recleaned = None
SplitUnused  == text = None /\ paragraphs = None
BuildUnused  == mf = None /\ files = None /\ rows = None /\ doc = None
SearchUnused == df = None /\ X = None /\ args = None /\ qv = None /\ hits = None

---------------------------------------------------------------------------
(* Generic helpers (Python built-ins)                                      *)

Min(a, b) == IF a < b THEN a ELSE b
Max(a, b) == IF a > b THEN a ELSE b

\* The members of S within lo..hi, in increasing order.
RECURSIVE SortedSeq(_, _, _)
SortedSeq(S, lo, hi) ==
  IF lo > hi THEN <<>>
  ELSE IF lo = hi THEN (IF lo \in S THEN <<lo>> ELSE <<>>)
  ELSE LET m == (lo + hi) \div 2
       IN SortedSeq(S, lo, m) \o SortedSeq(S, m + 1, hi)

\* The concatenation of the strings q[lo..hi].
RECURSIVE ConcatRange(_, _, _)
ConcatRange(q, lo, hi) ==
  IF lo > hi THEN <<>>
  ELSE IF lo = hi THEN q[lo]
  ELSE LET m == (lo + hi) \div 2
       IN ConcatRange(q, lo, m) \o ConcatRange(q, m + 1, hi)

Concat(q) == ConcatRange(q, 1, Len(q))

\* Python's x[i:j] for 0 <= i (zero-based, end exclusive, clipped to the length).
Slice(x, i, j) == SubSeq(x, i + 1, Min(j, Len(x)))

\* list(reversed(x)), x[::-1]
Reverse(x) == [k \in 1..Len(x) |-> x[Len(x) + 1 - k]]

---------------------------------------------------------------------------
(* Characters                                                              *)

\* str.isspace(), the class \s of re, the characters str.split() and
\* str.strip() treat as whitespace (those of the modelled alphabet).
Whitespace == {" ", "\t", "\n", "\r", "U+00A0", "U+2028"}
IsSpace(c) == c \in Whitespace

\* The class \d of re.
Digit == {"0", "1", "2", "3", "4", "5", "6", "7", "8", "9"}
IsDigit(c) == c \in Digit

---------------------------------------------------------------------------
(* utils_text.py: chunk_text                                               *)

\* str.split(): the maximal runs of non-whitespace characters, in order.
WordStarts(str) ==
  {i \in 1..Len(str) : ~IsSpace(str[i]) /\ (i = 1 \/ IsSpace(str[i - 1]))}
WordEnds(str) ==
  {i \in 1..Len(str) : ~IsSpace(str[i]) /\ (i = Len(str) \/ IsSpace(str[i + 1]))}
Split(str) ==
  LET st == SortedSeq(WordStarts(str), 1, Len(str))
      en == SortedSeq(WordEnds(str), 1, Len(str))
  IN [k \in 1..Len(st) |-> SubSeq(str, st[k], en[k])]

\* " ".join(words)
RECURSIVE JoinRange(_, _, _)
JoinRange(words, lo, hi) ==
  IF lo > hi THEN <<>>
  ELSE IF lo = hi THEN words[lo]
  ELSE LET m == (lo + hi) \div 2
       IN JoinRange(words, lo, m) \o <<" ">> \o JoinRange(words, m + 1, hi)
Join(words) == JoinRange(words, 1, Len(words))

\* list(range(0, stop, step)) for step > 0.
Range0(stop, step) ==
  [k \in 1..((Max(stop, 0) + step - 1) \div step) |-> (k - 1) * step]

\* step = max_tokens - overlap
StepNoOverlap(mt, ov) == mt
Step(mt, ov) == mt - ov

\* The end of the range of window starts: max(1, len(words) - overlap).
WindowStopNoOverlap(n, ov) == Max(1, n)
WindowStop(n, ov) == Max(1, n - ov)

\* One window: words[i:i+max_tokens].
WindowShort(words, i, mt) == Slice(words, i, i + mt - 1)
Window(words, i, mt) == Slice(words, i, i + mt)

chunk_text(str, mt, ov) ==
  LET words == Split(str)
  IN IF words = <<>> THEN <<>>
     ELSE LET starts == Range0(WindowStop(Len(words), ov), Step(mt, ov))
          IN [k \in 1..Len(starts) |-> Join(Window(words, starts[k], mt))]

---------------------------------------------------------------------------
(* Inputs of chunk_text                                                    *)

\* The parameters build_corpus passes.
DefaultMaxTokens == 180
DefaultOverlap == 30

\* Paragraph lengths tried with the default parameters, and with small ones.
MaxWords == 335
MaxWordsSmall == 12

\* Other parameter pairs <<max_tokens, overlap>> with 0 <= overlap < max_tokens.
SmallParams == {<<1, 0>>, <<2, 0>>, <<3, 1>>, <<4, 2>>, <<5, 4>>}

\* The decimal digits of i: word number i of a generated paragraph, so
\* that the words of a paragraph are pairwise different.
RECURSIVE Digits(_)
Digits(i) ==
  IF i < 10 THEN <<ToString(i)>>
  ELSE Digits(i \div 10) \o <<ToString(i % 10)>>

\* A paragraph of n words.  Layout 1 separates the words by single spaces;
\* layout 2 by varying whitespace, with whitespace around the paragraph.
Separator(i, layout) ==
  IF layout = 1 THEN <<" ">>
  ELSE IF i % 3 = 0 THEN <<"\n">>
  ELSE IF i % 3 = 1 THEN <<" ", " ">>
  ELSE <<"\t">>
GenParagraph(n, layout) ==
  LET body == Concat([i \in 1..n |->
                 IF i = n THEN Digits(i) ELSE Digits(i) \o Separator(i, layout)])
  IN IF layout = 1 THEN body ELSE <<" ">> \o body \o <<"\n">>

ChunkInit ==
  /\ pc = "chunk"
  /\ \E p \in {<<DefaultMaxTokens, DefaultOverlap>>} \cup SmallParams :
       /\ max_tokens = p[1]
       /\ overlap = p[2]
       /\ \E n \in 0..(IF p[1] = DefaultMaxTokens THEN MaxWords ELSE MaxWordsSmall) :
            \E layout \in (IF n <= MaxWordsSmall THEN {1, 2} ELSE {1}) :
              s = GenParagraph(n, layout)
  /\ chunks = None
  /\ CleanUnused /\ SplitUnused /\ BuildUnused /\ SearchUnused

\* chunks = chunk_text(s, max_tokens, overlap)
ChunkText ==
  /\ pc = "chunk"
  /\ chunks' = chunk_text(s, max_tokens, overlap)
  /\ pc' = "chunked"
  /\ UNCHANGED <<s, max_tokens, overlap, cleanVars, splitVars, buildVars, searchVars>>

ChunkNext == ChunkText
SpecChunk == ChunkInit /\ [][ChunkNext]_vars

---------------------------------------------------------------------------
(* Claims about chunk_text                                                 *)

\* The number of words of a string, counted without splitting it.
WordCount(str) == Cardinality(WordStarts(str))

CeilDiv(a, b) == (a + b - 1) \div b

DefaultCall ==
  pc = "chunked" /\ max_tokens = DefaultMaxTokens /\ overlap = DefaultOverlap

\* C1 as stated: with max_tokens=180 and overlap=30 a paragraph of N words
\* gives ceil(max(1, N-30)/150) chunks for every N, N = 0 included.
C1_CountForEveryN ==
  DefaultCall =>
    Len(chunks) = CeilDiv(Max(1, WordCount(s) - DefaultOverlap),
                          DefaultMaxTokens - DefaultOverlap)

\* C1 amended: with max_tokens=180 and overlap=30 a paragraph of N >= 1
\* words gives ceil(max(1, N-30)/150) chunks (1 for N = 180, 2 for N = 181),
\* and a paragraph of no words gives no chunk.
C1_ChunkCount ==
  DefaultCall =>
    /\ WordCount(s) = 0 => Len(chunks) = 0
    /\ WordCount(s) >= 1 =>
         Len(chunks) = CeilDiv(Max(1, WordCount(s) - DefaultOverlap),
                               DefaultMaxTokens - DefaultOverlap)
    /\ WordCount(s) = 180 => Len(chunks) = 1
    /\ WordCount(s) = 181 => Len(chunks) = 2

C1_Witness == DefaultCall /\ WordCount(s) = 181 /\ Len(chunks) = 2

\* The first m and the last m words of a word list.
FirstWords(w, m) == SubSeq(w, 1, m)
LastWords(w, m) == SubSeq(w, Len(w) - m + 1, Len(w))

\* C2: for any two consecutive chunks of a paragraph, the last `overlap`
\* words of the earlier chunk are the first `overlap` words of the later
\* one, in the same order, the final (possibly shorter) chunk included.
C2_ConsecutiveOverlap ==
  pc = "chunked" =>
    \A k \in 1..(Len(chunks) - 1) :
      LET a == Split(chunks[k])
          b == Split(chunks[k + 1])
      IN /\ Len(a) >= overlap
         /\ Len(b) >= overlap
         /\ LastWords(a, overlap) = FirstWords(b, overlap)

C2_Witness ==
  /\ pc = "chunked" /\ overlap > 0 /\ Len(chunks) >= 3
  /\ Len(Split(chunks[Len(chunks)])) < max_tokens

\* C3: the chunks of a non-empty paragraph are the word windows of at most
\* max_tokens words that start at word 0, step, 2*step, ...; the last chunk
\* ends with the last word of the paragraph and every word is in a chunk.
C3_WindowsCoverParagraph ==
  (pc = "chunked" /\ WordCount(s) > 0) =>
    LET words == Split(s)
        step == max_tokens - overlap
        w == [k \in 1..Len(chunks) |-> Split(chunks[k])]
    IN /\ Len(chunks) >= 1
       /\ \A k \in 1..Len(chunks) :
            /\ 1 <= Len(w[k]) /\ Len(w[k]) <= max_tokens
            /\ (k - 1) * step + Len(w[k]) <= Len(words)
            /\ w[k] = SubSeq(words, (k - 1) * step + 1, (k - 1) * step + Len(w[k]))
            /\ Len(w[k]) < max_tokens => (k - 1) * step + Len(w[k]) = Len(words)
       /\ (Len(chunks) - 1) * step + Len(w[Len(chunks)]) = Len(words)
       /\ \A i \in 1..Len(words) :
            \E k \in 1..Len(chunks) :
              (k - 1) * step < i /\ i <= (k - 1) * step + Len(w[k])

C3_Witness ==
  /\ pc = "chunked" /\ Len(chunks) = 2 /\ max_tokens = DefaultMaxTokens
  /\ WordCount(s) = 200
  /\ Len(Split(chunks[2])) = 50

---------------------------------------------------------------------------
(* preprocess.py: the Unicode data _normalize_unicode reads                *)
(* (unicodedata.normalize, unicodedata.category, unicodedata.name), for    *)
(* the code points of the modelled alphabet.                               *)

AsciiLetter == {"A", "E", "F", "G", "N", "O", "P", "R", "a", "c", "e", "f", "g",
                "i", "m", "n", "o", "p", "r", "s", "t", "u", "v", "w"}

\* COMBINING ACUTE ACCENT, the one combining mark of the alphabet.
Acute == "U+0301"

\* The canonical composition of a base letter and the acute accent
\* (LATIN ... LETTER x WITH ACUTE), where Unicode has one.
ComposeAcute ==
  [b \in {"A", "E", "G", "N", "O", "P", "R", "a", "c", "e", "g", "i", "m", "n",
          "o", "p", "r", "s", "u", "w"} |->
     CASE b = "A" -> "U+00C1" [] b = "E" -> "U+00C9" [] b = "G" -> "U+01F4"
       [] b = "N" -> "U+0143" [] b = "O" -> "U+00D3" [] b = "P" -> "U+1E54"
       [] b = "R" -> "U+0154" [] b = "a" -> "U+00E1" [] b = "c" -> "U+0107"
       [] b = "e" -> "U+00E9" [] b = "g" -> "U+01F5" [] b = "i" -> "U+00ED"
       [] b = "m" -> "U+1E3F" [] b = "n" -> "U+0144" [] b = "o" -> "U+00F3"
       [] b = "p" -> "U+1E55" [] b = "r" -> "U+0155" [] b = "s" -> "U+015B"
       [] b = "u" -> "U+00FA" [] b = "w" -> "U+1E83"]

AcuteLetter == {ComposeAcute[b] : b \in DOMAIN ComposeAcute}
BaseOf(c) == CHOOSE b \in DOMAIN ComposeAcute : ComposeAcute[b] = c

\* The full compatibility decomposition of one code point (NFKD).
Decompose(c) ==
  IF c \in AcuteLetter THEN <<BaseOf(c), Acute>>
  ELSE IF c = "U+00A0" THEN <<" ">>                \* NO-BREAK SPACE
  ELSE IF c = "U+2026" THEN <<".", ".", ".">>      \* HORIZONTAL ELLIPSIS
  ELSE IF c = "U+207B" THEN <<"U+2212">>           \* SUPERSCRIPT MINUS
  ELSE <<c>>

\* Canonical composition, left to right: an acute accent that directly
\* follows a base letter with a precomposed form joins it; an accent after
\* anything else (another accent included: it is blocked) stays.
RECURSIVE ComposeFrom(_, _, _)
ComposeFrom(str, i, acc) ==
  IF i > Len(str) THEN acc
  ELSE IF /\ str[i] = Acute
          /\ acc # <<>>
          /\ acc[Len(acc)] \in DOMAIN ComposeAcute
       THEN ComposeFrom(str, i + 1,
              [acc EXCEPT ![Len(acc)] = ComposeAcute[acc[Len(acc)]]])
       ELSE ComposeFrom(str, i + 1, Append(acc, str[i]))

\* unicodedata.normalize("NFKC", s).  The alphabet has one combining class,
\* so the canonical reordering step changes nothing.
NFKC(str) ==
  ComposeFrom(Concat([i \in 1..Len(str) |-> Decompose(str[i])]), 1, <<>>)

\* unicodedata.category(ch)
Category(c) ==
  IF c \in AsciiLetter \cup AcuteLetter THEN
    (IF c \in {"A", "E", "F", "G", "N", "O", "P", "R", "U+00C1", "U+00C9",
               "U+01F4", "U+0143", "U+00D3", "U+1E54", "U+0154"}
     THEN "Lu" ELSE "Ll")
  ELSE IF c \in Digit THEN "Nd"
  ELSE IF c \in {"\n", "\t", "\r"} THEN "Cc"
  ELSE IF c \in {" ", "U+00A0"} THEN "Zs"
  ELSE IF c = "U+2028" THEN "Zl"                   \* LINE SEPARATOR
  ELSE IF c \in {"U+200B", "U+00AD"} THEN "Cf"     \* ZERO WIDTH SPACE, SOFT HYPHEN
  ELSE IF c \in {"-", "U+2013", "U+2014"} THEN "Pd" \* HYPHEN-MINUS, EN DASH, EM DASH
  ELSE IF c \in {"U+2018", "U+201C"} THEN "Pi"     \* LEFT SINGLE/DOUBLE QUOTATION MARK
  ELSE IF c \in {"U+2019", "U+201D"} THEN "Pf"     \* RIGHT SINGLE/DOUBLE QUOTATION MARK
  ELSE IF c \in {".", "%", "\"", "'", "U+2022", "U+00B7", "U+2026", "U+1801"}
       THEN "Po"
  ELSE IF c \in {"U+2212", "U+207B"} THEN "Sm" \* MINUS SIGN, SUPERSCRIPT MINUS
  ELSE IF c = Acute THEN "Mn"
  ELSE "Cn"

SeparatorCategory == {"Zs", "Zl", "Zp"}              \* cat.startswith("Z")
OtherCategory == {"Cc", "Cf", "Cs", "Co", "Cn"}      \* cat.startswith("C")
PunctuationCategory == {"Pc", "Pd", "Ps", "Pe", "Pi", "Pf", "Po"}  \* cat.startswith("P")

\* unicodedata.name(ch, ""): the names the code tests.
NameContainsDouble(c) == c \in {"U+201C", "U+201D"}    \* ... DOUBLE QUOTATION MARK
NameContainsEllipsis(c) == c \in {"U+2026", "U+1801"}  \* HORIZONTAL / MONGOLIAN ELLIPSIS
NameContainsBullet(c) == c = "U+2022"                  \* BULLET
NameContainsMiddleDot(c) == c = "U+00B7"               \* MIDDLE DOT
NameIsMinusSign(c) == c = "U+2212"                     \* MINUS SIGN

---------------------------------------------------------------------------
(* preprocess.py: _normalize_unicode                                       *)

\* The body of the loop over the characters: what one character appends
\* to out_chars.
MapChar(c) ==
  IF c \in {"\n", "\t"} THEN <<c>>
  ELSE LET cat == Category(c)
       IN IF cat \in SeparatorCategory THEN <<" ">>
          ELSE IF cat \in OtherCategory THEN <<>>
          ELSE IF cat = "Pd" THEN <<"-">>
          ELSE IF cat \in {"Pi", "Pf"} THEN
            (IF NameContainsDouble(c) THEN <<"\"">> ELSE <<"'">>)
          ELSE IF cat \in PunctuationCategory THEN
            (IF NameContainsEllipsis(c) THEN <<".", ".", ".">>
             ELSE IF NameContainsBullet(c) \/ NameContainsMiddleDot(c) THEN <<"-">>
             ELSE IF NameIsMinusSign(c) THEN <<"-">>
             ELSE <<c>>)
          ELSE <<c>>

\* s.replace("\r", "\n")
ReplaceCR(str) == [i \in 1..Len(str) |-> IF str[i] = "\r" THEN "\n" ELSE str[i]]

_normalize_unicode(str) ==
  LET n == NFKC(ReplaceCR(str))
  IN Concat([i \in 1..Len(n) |-> MapChar(n[i])])

---------------------------------------------------------------------------
(* preprocess.py: the regular expressions of basic_clean                   *)
(*                                                                         *)
(* A pattern is modelled by its match end: the index of the last character *)
(* of the match re finds when it tries the pattern at index i (greedy,     *)
(* backtracking in re's order), or NoMatch.  No pattern here matches the   *)
(* empty string.                                                           *)

NoMatch == 0

\* The last index of the run of characters of class C that starts at i
\* (i - 1 when str[i] is not in C or i is past the end).
RunEnd(str, i, C) ==
  IF i > Len(str) THEN i - 1
  ELSE CHOOSE j \in (i - 1)..Len(str) :
         /\ \A k \in i..j : str[k] \in C
         /\ j = Len(str) \/ str[j + 1] \notin C

\* ^ and $ under re.MULTILINE: before index i / after index j.
AtLineStart(str, i) == i = 1 \/ str[i - 1] = "\n"
AtLineEnd(str, j) == j = Len(str) \/ str[j + 1] = "\n"

\* The tail \s*$ tried after index d: the longest run of whitespace after
\* d that ends at a line end.
TailEnd(str, d) ==
  LET ends == {j \in d..RunEnd(str, d + 1, Whitespace) : AtLineEnd(str, j)}
  IN IF ends = {} THEN NoMatch
     ELSE CHOOSE j \in ends : \A k \in ends : k <= j

\* The leftmost index >= pos where the pattern matches (0 if none).
NextMatch(str, me, pos) ==
  LET M == {i \in pos..Len(str) : me[i] # NoMatch}
  IN IF M = {} THEN 0 ELSE CHOOSE i \in M : \A k \in M : i <= k

\* pattern.sub(repl, str), given the pattern's match ends me[i]: the
\* leftmost non-overlapping matches are replaced, the text between is kept.
RECURSIVE SubFrom(_, _, _, _)
SubFrom(str, me, pos, repl) ==
  LET i == NextMatch(str, me, pos)
  IN IF i = 0 THEN SubSeq(str, pos, Len(str))
     ELSE SubSeq(str, pos, i - 1) \o repl \o SubFrom(str, me, me[i] + 1, repl)

\* pattern.split(str): the text between the leftmost non-overlapping
\* matches, empty pieces included.
RECURSIVE SplitFrom(_, _, _)
SplitFrom(str, me, pos) ==
  LET i == NextMatch(str, me, pos)
  IN IF i = 0 THEN <<SubSeq(str, pos, Len(str))>>
     ELSE <<SubSeq(str, pos, i - 1)>> \o SplitFrom(str, me, me[i] + 1)

\* RE_DOTS = \.{5,}|(HORIZONTAL ELLIPSIS)
DotsEnd(str, i) ==
  LET r == RunEnd(str, i, {"."})
  IN IF r - i + 1 >= 5 THEN r
     ELSE IF str[i] = "U+2026" THEN i
     ELSE NoMatch

\* RE_SPACE = [ \t]+
SpaceEnd(str, i) ==
  LET r == RunEnd(str, i, {" ", "\t"})
  IN IF r >= i THEN r ELSE NoMatch

\* RE_BLANKLINES = \n{3,}
BlankLinesEnd(str, i) ==
  LET r == RunEnd(str, i, {"\n"})
  IN IF r - i + 1 >= 3 THEN r ELSE NoMatch

\* RE_PAGE_NUM = ^\s*\d+\s*$
PageNumEnd(str, i) ==
  LET a == RunEnd(str, i, Whitespace)
      d == RunEnd(str, a + 1, Digit)
  IN IF AtLineStart(str, i) /\ d >= a + 1 THEN TailEnd(str, d) ELSE NoMatch

\* The class [-(EN DASH)(EM DASH)] of RE_PAGE_MARK.
DashClass == {"-", "U+2013", "U+2014"}

\* RE_PAGE_MARK = ^\s*[-..]?\s*\d+\s*[-..]?\s*$
PageMarkEnd(str, i) ==
  LET a == RunEnd(str, i, Whitespace)
      b == IF a < Len(str) /\ str[a + 1] \in DashClass THEN a + 1 ELSE a
      c == RunEnd(str, b + 1, Whitespace)
      d == RunEnd(str, c + 1, Digit)
      e == RunEnd(str, d + 1, Whitespace)
      withDash == IF e < Len(str) /\ str[e + 1] \in DashClass
                  THEN TailEnd(str, e + 1) ELSE NoMatch
  IN IF AtLineStart(str, i) /\ d >= c + 1
     THEN (IF withDash # NoMatch THEN withDash ELSE TailEnd(str, d))
     ELSE NoMatch

\* re.IGNORECASE for the letters of the patterns.
Lower(c) ==
  CASE c = "P" -> "p" [] c = "A" -> "a" [] c = "G" -> "g" [] c = "E" -> "e"
    [] c = "O" -> "o" [] c = "F" -> "f" [] OTHER -> c

\* Whether the letters of word (lower case) stand at str[i..], in any case.
Literal(str, i, word) ==
  /\ i + Len(word) - 1 <= Len(str)
  /\ \A k \in 1..Len(word) : Lower(str[i + k - 1]) = word[k]

\* RE_PAGE_WORD = ^\s*Page\s+\d+(\s+of\s+\d+)?\s*$ with re.IGNORECASE
PageWordEnd(str, i) ==
  LET a == RunEnd(str, i, Whitespace)
      w == RunEnd(str, a + 5, Whitespace)
      d == RunEnd(str, w + 1, Digit)
      \* the optional group (\s+of\s+\d+)
      g1 == RunEnd(str, d + 1, Whitespace)
      g2 == RunEnd(str, g1 + 3, Whitespace)
      d2 == RunEnd(str, g2 + 1, Digit)
      group == /\ g1 >= d + 1
               /\ Literal(str, g1 + 1, <<"o", "f">>)
               /\ g2 >= g1 + 3
               /\ d2 >= g2 + 1
      withGroup == IF group THEN TailEnd(str, d2) ELSE NoMatch
  IN IF /\ AtLineStart(str, i)
        /\ Literal(str, a + 1, <<"p", "a", "g", "e">>)
        /\ w >= a + 5
        /\ d >= w + 1
     THEN (IF withGroup # NoMatch THEN withGroup ELSE TailEnd(str, d))
     ELSE NoMatch

SubDots(str) ==
  SubFrom(str, [i \in 1..Len(str) |-> DotsEnd(str, i)], 1, <<".", ".", ".">>)
SubSpace(str) ==
  SubFrom(str, [i \in 1..Len(str) |-> SpaceEnd(str, i)], 1, <<" ">>)
SubPageNum(str) ==
  SubFrom(str, [i \in 1..Len(str) |-> PageNumEnd(str, i)], 1, <<>>)
SubPageMark(str) ==
  SubFrom(str, [i \in 1..Len(str) |-> PageMarkEnd(str, i)], 1, <<>>)
SubPageWord(str) ==
  SubFrom(str, [i \in 1..Len(str) |-> PageWordEnd(str, i)], 1, <<>>)
SubBlankLines(str) ==
  SubFrom(str, [i \in 1..Len(str) |-> BlankLinesEnd(str, i)], 1, <<"\n", "\n">>)

\* str.strip()
Strip(str) ==
  LET keep == {i \in 1..Len(str) : ~IsSpace(str[i])}
  IN IF keep = {} THEN <<>>
     ELSE SubSeq(str, CHOOSE i \in keep : \A k \in keep : i <= k,
                      CHOOSE i \in keep : \A k \in keep : k <= i)

---------------------------------------------------------------------------
(* preprocess.py: basic_clean                                              *)

basic_clean(str) ==
  LET t1 == _normalize_unicode(str)
      t2 == SubDots(t1)
      t3 == SubSpace(t2)
      t4 == SubPageNum(t3)
      t5 == SubPageMark(t4)
      t6 == SubPageWord(t5)
      t7 == SubBlankLines(t6)
  IN Strip(t7)

---------------------------------------------------------------------------
(* build_corpus.py: _split_into_paragraphs                                 *)

\* PARA_SPLIT = \n{2,}|\.{6,}
ParaSplitEnd(str, i) ==
  LET n == RunEnd(str, i, {"\n"})
      d == RunEnd(str, i, {"."})
  IN IF n - i + 1 >= 2 THEN n
     ELSE IF d - i + 1 >= 6 THEN d
     ELSE NoMatch

\* PARA_SPLIT.split(text)
ParaSplit(str) == SplitFrom(str, [i \in 1..Len(str) |-> ParaSplitEnd(str, i)], 1)

NonEmpty(str) == str # <<>>

\* Segments kept as split, without seg.strip().
UntrimmedSegments(str) ==
  LET segs == ParaSplit(str)
  IN SelectSeq(segs, LAMBDA seg : Strip(seg) # <<>>)

\* [seg.strip() for seg in PARA_SPLIT.split(text) if seg.strip()]
StrippedSegments(str) ==
  LET segs == ParaSplit(str)
  IN SelectSeq([k \in 1..Len(segs) |-> Strip(segs[k])], NonEmpty)

\* The guard of the return statement: len(paras) > 2.
EnoughParagraphsTwo(paras) == Len(paras) >= 2
EnoughParagraphs(paras) == Len(paras) > 2

_split_into_paragraphs(str) ==
  LET paras == StrippedSegments(str)
  IN IF EnoughParagraphs(paras) THEN paras ELSE <<Strip(str)>>

---------------------------------------------------------------------------
(* build_corpus.py: _build_rows                                            *)

\* The file store maps a path to [exists, content]: p.exists() and
\* p.read_text().
Missing == [exists |-> FALSE, content |-> <<>>]
File(content) == [exists |-> TRUE, content |-> content]

\* The dict appended for one chunk.
Row(r, para_id, cid, ch) ==
  [ticker |-> r.ticker, doc_type |-> r.source, period_label |-> r.period_label,
   quarter |-> r.quarter, section |-> r.section, source_file |-> r.filename,
   processed_path |-> r.processed_path,
   para_id |-> para_id, chunk_id |-> cid, text |-> ch]

\* for cid, ch in enumerate(chunks): rows.append({...})
ChunkRows(r, para_id, chs) ==
  [k \in 1..Len(chs) |-> Row(r, para_id, k - 1, chs[k])]

\* para_id += 1, at the end of the body of the loop over the paragraphs.
NextParaIdPerChunk(para_id, chs) == para_id + Len(chs)
NextParaId(para_id, chs) == para_id + 1

\* para_id = 0; for para in paragraphs: ... (from paragraph number k on).
RECURSIVE ParagraphLoop(_, _, _, _)
ParagraphLoop(r, paras, k, para_id) ==
  IF k > Len(paras) THEN <<>>
  ELSE LET chs == chunk_text(paras[k], DefaultMaxTokens, DefaultOverlap)
       IN ChunkRows(r, para_id, chs)
            \o ParagraphLoop(r, paras, k + 1, NextParaId(para_id, chs))

\* The rows one manifest row adds: the body of the loop over the manifest.
DocumentRows(r, store) ==
  IF ~store[r.processed_path].exists THEN <<>>
  ELSE ParagraphLoop(r, _split_into_paragraphs(store[r.processed_path].content), 1, 0)

\* _build_rows(mf), from manifest row k on.
RECURSIVE BuildRowsFrom(_, _, _)
BuildRowsFrom(m, store, k) ==
  IF k > Len(m) THEN <<>>
  ELSE DocumentRows(m[k], store) \o BuildRowsFrom(m, store, k + 1)
_build_rows(m, store) == BuildRowsFrom(m, store, 1)

---------------------------------------------------------------------------
(* The preprocessing of one raw file, followed by a second pass over the   *)
(* processed file or by the corpus build over it                           *)

\* "Revenue grew 10%.\n\n\nPage 2\n\nNet income rose."
ExampleDoc ==
  <<"R", "e", "v", "e", "n", "u", "e", " ", "g", "r", "e", "w", " ", "1",
    "0", "%", ".", "\n", "\n", "\n", "P", "a", "g", "e", " ", "2", "\n",
    "\n", "N", "e", "t", " ", "i", "n", "c", "o", "m", "e", " ", "r", "o",
    "s", "e", ".">>

\* "Revenue grew 10%.\n\nNet income rose."
ExampleCleaned ==
  <<"R", "e", "v", "e", "n", "u", "e", " ", "g", "r", "e", "w", " ", "1",
    "0", "%", ".", "\n", "\n", "N", "e", "t", " ", "i", "n", "c", "o", "m",
    "e", " ", "r", "o", "s", "e", ".">>

\* "Revenue grew 10%. Net income rose."
ExampleChunk ==
  <<"R", "e", "v", "e", "n", "u", "e", " ", "g", "r", "e", "w", " ", "1",
    "0", "%", ".", " ", "N", "e", "t", " ", "i", "n", "c", "o", "m", "e",
    " ", "r", "o", "s", "e", ".">>

\* Raw files are the example document and the concatenations of at most
\* MaxPieces of these pieces.
MaxPieces == 3
CleanPieces ==
  << <<"e">>, <<Acute>>, <<"U+200B">>, <<"U+2212">>, <<"U+2013">>, <<"U+201C">>,
     <<"\n">>, <<" ">>, <<"2">>, <<"-">>,
     <<"P", "a", "g", "e">>, <<".", ".", ".", ".", ".">> >>

RawFiles ==
  {ExampleDoc} \cup
  UNION {{Concat([k \in 1..n |-> CleanPieces[q[k]]]) :
            q \in [1..n -> 1..Len(CleanPieces)]} : n \in 0..MaxPieces}

\* The manifest row load_and_clean writes for file number k
\* (parse_filename of a name such as MSFT_10K_FY2025_RiskFactors.txt).
ManifestRow(k) ==
  [ticker |-> IF k % 2 = 1 THEN "MSFT" ELSE "NVDA",
   source |-> IF k % 2 = 1 THEN "10K" ELSE "EarningsCall",
   period_label |-> "FY2025",
   quarter |-> IF k % 2 = 1 THEN "" ELSE "Q1",
   section |-> IF k % 2 = 1 THEN "RiskFactors" ELSE "",
   filename |-> k,
   processed_path |-> k]

CleanInit ==
  /\ pc = "clean"
  /\ raw \in RawFiles
  /\ normalized = None /\ cleaned = None /\ recleaned = None
  /\ text = None /\ paragraphs = None /\ rows = None
  /\ mf = None /\ files = None /\ doc = None
  /\ ChunkUnused /\ SearchUnused

\* cleaned = basic_clean(raw_text); its first statement is
\* text = _normalize_unicode(text).
BasicClean ==
  /\ pc = "clean"
  /\ normalized' = _normalize_unicode(raw)
  /\ cleaned' = basic_clean(raw)
  /\ pc' = "cleaned"
  /\ UNCHANGED <<raw, recleaned, chunkVars, splitVars, buildVars, searchVars>>

\* basic_clean applied to the text it produced.
CleanAgain ==
  /\ pc = "cleaned"
  /\ recleaned' = basic_clean(cleaned)
  /\ pc' = "recleaned"
  /\ UNCHANGED <<raw, normalized, cleaned, chunkVars, splitVars, buildVars,
                 searchVars>>

\* The body of the manifest loop of _build_rows for the processed file.
Segment ==
  /\ pc = "cleaned"
  /\ text' = cleaned
  /\ paragraphs' = _split_into_paragraphs(cleaned)
  /\ rows' = ParagraphLoop(ManifestRow(1), _split_into_paragraphs(cleaned), 1, 0)
  /\ pc' = "segmented"
  /\ UNCHANGED <<cleanVars, chunkVars, mf, files, doc, searchVars>>

CleanNext == BasicClean \/ CleanAgain \/ Segment
SpecClean == CleanInit /\ [][CleanNext]_vars

---------------------------------------------------------------------------
(* Claims about basic_clean                                                *)

\* C6 as stated: cleaning the cleaned text changes nothing,
\* basic_clean(basic_clean(x)) = basic_clean(x) for every x.
C6_Idempotent == pc = "recleaned" => recleaned = cleaned

\* C10 as stated: the per-character mapping turns every dash (Pd) and the
\* MINUS SIGN into "-", so no MINUS SIGN is left in the output of
\* _normalize_unicode.
C10_NoMinusSignLeft ==
  pc # "clean" =>
    \A i \in 1..Len(normalized) :
      /\ ~NameIsMinusSign(normalized[i])
      /\ Category(normalized[i]) = "Pd" => normalized[i] = "-"

\* C7 as stated: the example document is cleaned to "Revenue grew
\* 10%.\n\nNet income rose." and segmenting that gives two paragraphs with
\* one chunk each.
C7_TwoParagraphs ==
  (pc = "segmented" /\ raw = ExampleDoc) =>
    /\ cleaned = ExampleCleaned
    /\ Len(paragraphs) = 2
    /\ \A p \in 0..1 :
         Cardinality({k \in 1..Len(rows) : rows[k].para_id = p}) = 1

\* C7 amended: the example document is cleaned to "Revenue grew
\* 10%.\n\nNet income rose." (page line removed, blank lines collapsed);
\* the split finds only two segments, so segmenting gives one paragraph,
\* the whole cleaned text, with exactly one chunk.
C7_OneParagraph ==
  (pc = "segmented" /\ raw = ExampleDoc) =>
    /\ cleaned = ExampleCleaned
    /\ paragraphs = <<ExampleCleaned>>
    /\ Len(rows) = 1
    /\ rows[1].para_id = 0 /\ rows[1].chunk_id = 0
    /\ rows[1].text = ExampleChunk

C7_Witness == pc = "segmented" /\ raw = ExampleDoc /\ Len(rows) = 1

---------------------------------------------------------------------------
(* _split_into_paragraphs on its own                                       *)

\* Texts are the concatenations of at most MaxSplitPieces of these pieces.
MaxSplitPieces == 5
SplitPieces ==
  << <<"a">>, <<" ">>, <<"a", " ">>, <<"\n">>, <<"\n", "\n">>, <<".">>,
     <<".", ".", ".", ".", ".", ".">> >>

SplitTexts ==
  UNION {{Concat([k \in 1..n |-> SplitPieces[q[k]]]) :
            q \in [1..n -> 1..Len(SplitPieces)]} : n \in 0..MaxSplitPieces}

SplitInit ==
  /\ pc = "split"
  /\ text \in SplitTexts
  /\ paragraphs = None
  /\ ChunkUnused /\ CleanUnused /\ BuildUnused /\ SearchUnused

\* paragraphs = _split_into_paragraphs(text)
SplitIntoParagraphs ==
  /\ pc = "split"
  /\ paragraphs' = _split_into_paragraphs(text)
  /\ pc' = "paragraphs"
  /\ UNCHANGED <<text, chunkVars, cleanVars, buildVars, searchVars>>

SplitNext == SplitIntoParagraphs
SpecSplit == SplitInit /\ [][SplitNext]_vars

\* Index i lies in a run of at least n characters c: some n consecutive
\* characters around i are all c.
InRun(str, i, c, n) ==
  \E a \in Max(1, i - n + 1)..Min(i, Len(str) - n + 1) :
    \A k \in a..(a + n - 1) : str[k] = c
\* Index i lies in a run of at least two newlines or at least six dots.
IsBoundary(str, i) == InRun(str, i, "\n", 2) \/ InRun(str, i, ".", 6)

\* The maximal stretches <<a, b>> of text between boundaries that hold a
\* character other than whitespace, each trimmed to its first and last
\* such character.
TrimmedSegments(str) ==
  {<<a, b>> \in (1..Len(str)) \X (1..Len(str)) :
     /\ a <= b
     /\ ~IsSpace(str[a]) /\ ~IsSpace(str[b])
     /\ \A k \in a..b : ~IsBoundary(str, k)
     /\ \E k \in 0..(a - 1) :
          /\ k = 0 \/ IsBoundary(str, k)
          /\ \A j \in (k + 1)..(a - 1) : IsSpace(str[j]) /\ ~IsBoundary(str, j)
     /\ \E k \in (b + 1)..(Len(str) + 1) :
          /\ k = Len(str) + 1 \/ IsBoundary(str, k)
          /\ \A j \in (b + 1)..(k - 1) : IsSpace(str[j]) /\ ~IsBoundary(str, j)}

\* text without its leading and trailing whitespace is para.
IsTrimOf(para, str) ==
  \E a \in 1..(Len(str) + 1) : \E b \in 0..Len(str) :
    /\ a <= b + 1
    /\ para = SubSeq(str, a, b)
    /\ \A k \in (1..(a - 1)) \cup ((b + 1)..Len(str)) : IsSpace(str[k])
    /\ para # <<>> => ~IsSpace(para[1]) /\ ~IsSpace(para[Len(para)])

\* C8: if the split on runs of two or more newlines or six or more dots
\* leaves at most two non-empty trimmed segments, the result is one
\* paragraph, the whole text trimmed (so for every text without such a
\* run); if it leaves three or more, the result is those segments in order.
C8_ParagraphSplit ==
  pc = "paragraphs" =>
    LET segs == TrimmedSegments(text)
        firsts == SortedSeq({sg[1] : sg \in segs}, 1, Len(text))
    IN /\ Cardinality(segs) <= 2 =>
            Len(paragraphs) = 1 /\ IsTrimOf(paragraphs[1], text)
       /\ (\A i \in 1..Len(text) : ~IsBoundary(text, i)) =>
            Len(paragraphs) = 1 /\ IsTrimOf(paragraphs[1], text)
       /\ Cardinality(segs) >= 3 =>
            /\ Len(paragraphs) = Cardinality(segs)
            /\ \A k \in 1..Len(paragraphs) :
                 \E sg \in segs :
                   sg[1] = firsts[k] /\ paragraphs[k] = SubSeq(text, sg[1], sg[2])

C8_Witness ==
  /\ pc = "paragraphs" /\ Len(paragraphs) = 3
  /\ \E i \in 1..Len(text) : InRun(text, i, ".", 6)

---------------------------------------------------------------------------
(* build_corpus.py: the corpus build over a manifest                       *)

\* Manifests have at most MaxDocs rows.
MaxDocs == 2

\* A paragraph one word longer than a window: it gives two chunks.
LongParagraph == GenParagraph(DefaultMaxTokens + 1, 1)

\* The contents of the processed files: empty; blank; one block; two
\* segments; three paragraphs; three paragraphs split by a dot leader;
\* three paragraphs, the second with two chunks.
FileTexts ==
  { <<>>,
    <<"\n", "\n">>,
    <<"a", " ", "b">>,
    <<"a", "\n", "\n", "b">>,
    <<"a", "\n", "\n", "b", " ", "c", "\n", "\n", "d">>,
    <<"a", ".", ".", ".", ".", ".", ".", "b", "\n", "\n", "c">>,
    <<"a", "\n", "\n">> \o LongParagraph \o <<"\n", "\n", "b">> }

Init ==
  /\ pc = "build"
  /\ \E n \in 0..MaxDocs :
       /\ mf = [k \in 1..n |-> ManifestRow(k)]
       /\ files \in [1..n -> {File(c) : c \in FileTexts} \cup {Missing}]
  /\ rows = <<>>
  /\ doc = 1
  /\ text = None /\ paragraphs = None
  /\ ChunkUnused /\ CleanUnused /\ SearchUnused

\* if not p.exists(): (warn) continue
SkipMissingFile ==
  /\ pc = "build" /\ doc <= Len(mf)
  /\ ~files[mf[doc].processed_path].exists
  /\ doc' = doc + 1
  /\ UNCHANGED <<pc, mf, files, rows, text, paragraphs, chunkVars, cleanVars,
                 searchVars>>

\* One pass of the loop over the manifest for a file that exists.
BuildDocument ==
  /\ pc = "build" /\ doc <= Len(mf)
  /\ files[mf[doc].processed_path].exists
  /\ text' = files[mf[doc].processed_path].content
  /\ paragraphs' = _split_into_paragraphs(text')
  /\ rows' = rows \o DocumentRows(mf[doc], files)
  /\ doc' = doc + 1
  /\ UNCHANGED <<pc, mf, files, chunkVars, cleanVars, searchVars>>

\* return rows
ReturnRows ==
  /\ pc = "build" /\ doc > Len(mf)
  /\ pc' = "built"
  /\ UNCHANGED <<mf, files, rows, doc, text, paragraphs, chunkVars, cleanVars,
                 searchVars>>

Next == SkipMissingFile \/ BuildDocument \/ ReturnRows
Spec == Init /\ [][Next]_vars

---------------------------------------------------------------------------
(* Claims about _build_rows                                                *)

\* The indices of the rows emitted for the file at path d, in emission order.
RowsOf(d) ==
  SortedSeq({j \in 1..Len(rows) : rows[j].processed_path = d}, 1, Len(rows))

\* The manifest without the rows whose file is missing.
PresentRow(r) == files[r.processed_path].exists

\* C9: for each document, para_id is the zero-based position of the
\* paragraph (it advances by one per paragraph, with or without chunks),
\* the chunk_ids of a paragraph with k chunks are 0..k-1 in emission order,
\* so (para_id, chunk_id) is unique within a document; a manifest row
\* whose file is missing adds no rows and leaves the other rows as they
\* would be without it.
C9_RowIndices ==
  /\ \A d \in 1..(doc - 1) :
       LET idx == RowsOf(d)
       IN IF ~files[d].exists THEN idx = <<>>
          ELSE LET paras == _split_into_paragraphs(files[d].content)
                   count == [p \in 1..Len(paras) |->
                               Len(chunk_text(paras[p], DefaultMaxTokens, DefaultOverlap))]
               IN /\ \A j \in 1..Len(idx) :
                       LET row == rows[idx[j]]
                       IN /\ row.para_id \in 0..(Len(paras) - 1)
                          /\ row.chunk_id \in 0..(count[row.para_id + 1] - 1)
                          /\ row.text = chunk_text(paras[row.para_id + 1], DefaultMaxTokens,
                                                   DefaultOverlap)[row.chunk_id + 1]
                  /\ \A p \in 1..Len(paras) :
                       LET mine == SelectSeq(idx, LAMBDA j : rows[j].para_id = p - 1)
                       IN /\ Len(mine) = count[p]
                          /\ \A c \in 1..Len(mine) : rows[mine[c]].chunk_id = c - 1
                  /\ \A j \in 1..(Len(idx) - 1) :
                       rows[idx[j]].para_id <= rows[idx[j + 1]].para_id
  /\ \A i, j \in 1..Len(rows) :
       (i # j /\ rows[i].processed_path = rows[j].processed_path) =>
         <<rows[i].para_id, rows[i].chunk_id>> # <<rows[j].para_id, rows[j].chunk_id>>
  /\ pc = "built" => rows = _build_rows(SelectSeq(mf, PresentRow), files)

C9_Witness ==
  /\ pc = "built"
  /\ \E d \in 1..Len(mf) : ~files[d].exists
  /\ \E i, j, k \in 1..Len(rows) :
       /\ rows[i].para_id = 1 /\ rows[i].chunk_id = 0
       /\ rows[j].para_id = 1 /\ rows[j].chunk_id = 1
       /\ rows[k].para_id = 2 /\ rows[k].chunk_id = 0

---------------------------------------------------------------------------
(* search.py: main                                                         *)

\* x[:k]
Prefix(x, k) ==
  IF k >= 0 THEN SubSeq(x, 1, Min(k, Len(x)))
  ELSE SubSeq(x, 1, Max(0, Len(x) + k))

\* linear_kernel(qv, X[i]): the dot product of two term-weight vectors.
\* Weights are written in sixteenths, so a product is in 256ths; these
\* values and their sums are exact in binary floating point.
RECURSIVE DotFrom(_, _, _)
DotFrom(a, b, k) == IF k > Len(a) THEN 0 ELSE a[k] * b[k] + DotFrom(a, b, k + 1)
Dot(a, b) == DotFrom(a, b, 1)

\* f"{score:.3f}": a similarity (256ths) printed in thousandths.  The
\* format rounds the exact binary value to the nearest thousandth, and a
\* value exactly half way to the even one (0.0625 prints as 0.062).
Round3(x) ==
  LET q == (1000 * x) \div 256
      r == (1000 * x) % 256
  IN IF r > 128 \/ (r = 128 /\ q % 2 = 1) THEN q + 1 ELSE q

\* mask = True; if args.company: mask &= ticker == company;
\* if args.doc: mask &= doc_type == doc
Mask(meta, a, i) ==
  /\ a.company # None => meta[i].ticker = a.company
  /\ a.doc # None => meta[i].doc_type = a.doc

\* idx = np.where(mask.values)[0]: the selected row numbers, ascending.
\* (Row numbers count from 1 here, from 0 in the code.)
WhereMask(meta, a) ==
  SortedSeq({i \in 1..Len(meta) : Mask(meta, a, i)}, 1, Len(meta))

\* sims = linear_kernel(qv, X[idx]).ravel()
Sims(q, matrix, idx) == [j \in 1..Len(idx) |-> Dot(q, matrix[idx[j]])]

\* sims.argsort(): numpy's default sort is not stable, so any ascending
\* order of the positions is a possible result.
Argsorts(sims) ==
  {p \in [1..Len(sims) -> 1..Len(sims)] :
     /\ \A a, b \in 1..Len(sims) : a # b => p[a] # p[b]
     /\ \A a \in 1..(Len(sims) - 1) : sims[p[a]] <= sims[p[a + 1]]}

\* top = sims.argsort()[::-1][:args.top_k]
TopAscending(order, k) == Prefix(order, k)
Top(order, k) == Prefix(Reverse(order), k)

\* row = df.iloc[idx[j]]
HitRowUnmapped(idx, j) == j
HitRow(idx, j) == idx[j]

\* What the loop prints for position j of sims at rank r.
Hit(r, score, row) ==
  [rank |-> r, score |-> Round3(score), ticker |-> row.ticker,
   doc_type |-> row.doc_type, source_file |-> row.source_file,
   para_id |-> row.para_id, chunk_id |-> row.chunk_id, text |-> row.text]

\* Corpora have at most MaxRows chunks; top_k is at most MaxTopK.
MaxRows == 3
MaxTopK == 2

\* The document-term rows and the query vectors tried (two terms).
MatrixRows == {<<16, 0>>, <<4, 4>>}
QueryVectors == {<<16, 0>>, <<0, 4>>, <<0, 0>>}

\* Row i of the corpus table: chunk i - 1 of one paragraph of one file.
MetaRow(i, ticker, doc_type) ==
  [ticker |-> ticker, doc_type |-> doc_type, source_file |-> "corpus.txt",
   para_id |-> 0, chunk_id |-> i - 1, text |-> Digits(i)]

SearchInit ==
  /\ pc = "search"
  /\ \E n \in 1..MaxRows :
       /\ \E tk \in [1..n -> {"MSFT", "NVDA"}] :
            \E dt \in [1..n -> {"10K", "EarningsCall"}] :
              df = [i \in 1..n |-> MetaRow(i, tk[i], dt[i])]
       /\ X \in [1..n -> MatrixRows]
  /\ args \in [company : {None, "MSFT"}, doc : {None, "10K"}, top_k : 1..MaxTopK]
  /\ qv \in QueryVectors
  /\ hits = <<>>
  /\ ChunkUnused /\ CleanUnused /\ SplitUnused /\ BuildUnused

\* if len(idx)==0: print("No docs match filters."); return
SearchNoMatch ==
  /\ pc = "search"
  /\ WhereMask(df, args) = <<>>
  /\ pc' = "no_match"
  /\ UNCHANGED <<searchVars, chunkVars, cleanVars, splitVars, buildVars>>

\* The rest of main: score, rank, print.
SearchPrint ==
  /\ pc = "search"
  /\ LET idx == WhereMask(df, args)
         sims == Sims(qv, X, idx)
     IN /\ idx # <<>>
        /\ \E order \in Argsorts(sims) :
             LET top == Top(order, args.top_k)
             IN hits' = [r \in 1..Len(top) |->
                           Hit(r, sims[top[r]], df[HitRow(idx, top[r])])]
  /\ pc' = "printed"
  /\ UNCHANGED <<df, X, args, qv, chunkVars, cleanVars, splitVars, buildVars>>

SearchNext == SearchNoMatch \/ SearchPrint
SpecSearch == SearchInit /\ [][SearchNext]_vars

---------------------------------------------------------------------------
(* Claims about search                                                     *)

\* The corpus rows that pass the filters, stated on the table itself.
Passing ==
  {i \in 1..Len(df) :
     /\ args.company = None \/ df[i].ticker = args.company
     /\ args.doc = None \/ df[i].doc_type = args.doc}

\* The corpus row a hit shows (chunk_id is the row's position in the table).
RowOfHit(h) == h.chunk_id + 1

Similarity(i) == Dot(qv, X[i])

\* Row i ranks before row j: higher similarity, or equal and earlier.
RanksBefore(i, j) ==
  Similarity(i) > Similarity(j) \/ (Similarity(i) = Similarity(j) /\ i < j)

Searched == pc \in {"printed", "no_match"}

\* C4 as stated: the hits are the first min(top_k, m) of the m passing
\* rows ordered by descending similarity, equal similarities in corpus
\* row order (the earlier row first).
C4_TiesInRowOrder ==
  Searched =>
    /\ Len(hits) = Min(args.top_k, Cardinality(Passing))
    /\ \A r \in 1..Len(hits) :
         /\ RowOfHit(hits[r]) \in Passing
         /\ Cardinality({i \in Passing : RanksBefore(i, RowOfHit(hits[r]))}) = r - 1

\* C4 amended: the hits are min(top_k, m) different passing rows in
\* order of non-increasing similarity, and no passing row left out has a
\* higher similarity than a hit; the order among rows of exactly equal
\* similarity is not fixed (the ascending argsort is reversed).
C4_TopKBySimilarity ==
  Searched =>
    /\ Len(hits) = Min(args.top_k, Cardinality(Passing))
    /\ \A r \in 1..Len(hits) : RowOfHit(hits[r]) \in Passing
    /\ \A r, q \in 1..Len(hits) : r # q => RowOfHit(hits[r]) # RowOfHit(hits[q])
    /\ \A r \in 1..(Len(hits) - 1) :
         Similarity(RowOfHit(hits[r])) >= Similarity(RowOfHit(hits[r + 1]))
    /\ \A i \in Passing :
         (\A r \in 1..Len(hits) : RowOfHit(hits[r]) # i) =>
           \A r \in 1..Len(hits) : Similarity(i) <= Similarity(RowOfHit(hits[r]))

C4_Witness ==
  /\ pc = "printed" /\ Len(hits) = 2 /\ Cardinality(Passing) = 3
  /\ Similarity(RowOfHit(hits[1])) = Similarity(RowOfHit(hits[2]))
  /\ RowOfHit(hits[1]) > RowOfHit(hits[2])

\* C5: every hit passes every filter given (ticker, doc_type; a filter
\* not given excludes nothing), and what a hit shows is the corpus row
\* whose matrix row gave the hit's score.
C5_HitsPassFilters ==
  Searched =>
    \A r \in 1..Len(hits) :
      LET h == hits[r]
          i == RowOfHit(h)
      IN /\ args.company # None => h.ticker = args.company
         /\ args.doc # None => h.doc_type = args.doc
         /\ i \in 1..Len(df)
         /\ h.ticker = df[i].ticker /\ h.doc_type = df[i].doc_type
         /\ h.source_file = df[i].source_file /\ h.para_id = df[i].para_id
         /\ h.text = df[i].text
         /\ h.score = Round3(Dot(qv, X[i]))

C5_Witness ==
  /\ pc = "printed" /\ args.company # None /\ args.doc # None
  /\ Len(hits) = 2
  /\ 1 \notin Passing
  /\ hits[1].score > hits[2].score

====
